---- MODULE Spec2Model ----
(***************************************************************************)
(* SPIClass (libraries/SPI/src/SPI.cpp): a settings cache in front of the  *)
(* SPI HAL (spi_init, spi_deinit, spi_getClkFreq, spi_transfer).           *)
(*                                                                         *)
(* State of one SPIClass object: _spi (pins and HAL handle state) and      *)
(* _spiSettings (the cached settings).  Every public method is one action. *)
(* The HAL calls a method makes are recorded, in program order, in trace;  *)
(* op names the method and its arguments, ret its return value, and pre    *)
(* the object as it was when the method was entered.                       *)
(***************************************************************************)
EXTENDS Integers, Sequences, FiniteSets, TLC

VARIABLES _spi, _spiSettings, op, trace, ret, pre, periph, everInit, begun, begunSinceEnd

vars == <<_spi, _spiSettings, op, trace, ret, pre, periph, everInit, begun, begunSinceEnd>>

(***************************************************************************)
(* Bounds of the model.                                                    *)
(***************************************************************************)
\* setClockDivider is called with 0..MaxDivider and with 255
MaxDivider == 2
\* transfer(buf, count) is called with buffers of 0..MaxBufLen bytes
MaxBufLen == 2

(***************************************************************************)
(* Constants of SPI.h and of the HAL headers.                              *)
(***************************************************************************)
SPI_SPEED_CLOCK_DEFAULT == 4000000
SPI_TRANSFER_TIMEOUT == 1000
LSBFIRST == 0
MSBFIRST == 1
SPI_MODE0 == 0
SPI_MODE1 == 1
SPI_MODE2 == 2
SPI_MODE3 == 3
SPI_TRANSMITRECEIVE == FALSE
SPI_TRANSMITONLY == TRUE
HAL_SPI_STATE_RESET == "HAL_SPI_STATE_RESET"
HAL_SPI_STATE_READY == "HAL_SPI_STATE_READY"
NC == "NC"
\* the variant's default pins
MISO == 12
MOSI == 11
SCK == 13

BitOrders == {LSBFIRST, MSBFIRST}
SPIModes == {SPI_MODE0, SPI_MODE1, SPI_MODE2, SPI_MODE3}
UINT8_MAX == 255
UINT16_MAX == 65535
HandleStates == {HAL_SPI_STATE_RESET, HAL_SPI_STATE_READY}

(***************************************************************************)
(* Inputs.                                                                 *)
(***************************************************************************)
\* clock frequencies passed in SPISettings
ClockArgs == {SPI_SPEED_CLOCK_DEFAULT, 1000000}
\* peripheral clock frequencies spi_getClkFreq may report (below 2^31)
PClkFreqs == {48000000, 84000000}
Dividers == (0..MaxDivider) \cup {UINT8_MAX}
ByteSamples == {0, 90, 255}
\* 0x0000, 0x00ff, 0x1234, 0xa500, 0xffff
Words16 == {0, 255, 4660, 42240, 65535}
\* what the slave answers: the transmitted bytes (loopback), or the bytes
\* 0x11, 0x22, ...
Slaves == {"loopback", "ramp"}
InterruptNumbers == {0, 1}
\* pin numbers given to the four-argument constructor: <<mosi, miso, sclk, ssel>>
PinArgs == {<<4, 5, 3, 99>>}

(***************************************************************************)
(* SPISettings (SPI.h).                                                    *)
(***************************************************************************)
SPISettings(clock, bitOrder, dataMode, noRecv) ==
  [clockFreq |-> clock, bitOrder |-> bitOrder, dataMode |-> dataMode, noReceive |-> noRecv]

DEFAULT_SPI_SETTINGS ==
  SPISettings(SPI_SPEED_CLOCK_DEFAULT, MSBFIRST, SPI_MODE0, SPI_TRANSMITRECEIVE)

\* SPISettings::operator== and operator!=
SettingsEq(a, b) ==
  /\ a.clockFreq = b.clockFreq
  /\ a.bitOrder = b.bitOrder
  /\ a.dataMode = b.dataMode
  /\ a.noReceive = b.noReceive

SettingsNeq(a, b) == ~SettingsEq(a, b)

SettingsArgs ==
  {SPISettings(c, b, m, n) : c \in ClockArgs, b \in BitOrders, m \in {SPI_MODE0, SPI_MODE3},
                             n \in {SPI_TRANSMITRECEIVE, SPI_TRANSMITONLY}}

(***************************************************************************)
(* Pins.                                                                   *)
(***************************************************************************)
\* the variant's digitalPin[] table; a number outside it maps to NC
digitalPinToPinName(p) ==
  CASE p = 3 -> "PB_3" [] p = 4 -> "PB_5" [] p = 5 -> "PB_4"
    [] p = 11 -> "PA_7" [] p = 12 -> "PA_6" [] p = 13 -> "PA_5" [] OTHER -> NC

(***************************************************************************)
(* The HAL, as far as SPIClass can see it.                                 *)
(***************************************************************************)
\* the call spi_init(&_spi, speed, mode, msb); state is handle.State on entry
SpiInitCall(spi, s) ==
  [call |-> "spi_init", speed |-> s.clockFreq, mode |-> s.dataMode, msb |-> s.bitOrder,
   state |-> spi.handle_State]

SpiDeinitCall == [call |-> "spi_deinit"]

SpiGetClkFreqCall(f) == [call |-> "spi_getClkFreq", freq |-> f]

\* the call spi_transfer(&_spi, buffer, len, timeout, skipReceive); rx is the
\* buffer as the call leaves it
SpiTransferCall(tx, len, timeout, skip, rx) ==
  [call |-> "spi_transfer", tx |-> tx, len |-> len, timeout |-> timeout,
   skipReceive |-> skip, rx |-> rx]

\* spi_init leaves the handle ready, spi_deinit leaves it reset
spi_init(spi) == [spi EXCEPT !.handle_State = HAL_SPI_STATE_READY]

spi_deinit(spi) == [spi EXCEPT !.handle_State = HAL_SPI_STATE_RESET]

\* the bytes the slave shifts out while tx is shifted in
Answer(slave, tx) ==
  [i \in 1..Len(tx) |->
     IF slave = "loopback" THEN tx[i] ELSE (17 * i) % 256]

\* spi_transfer stores the received bytes in the buffer unless skipReceive is set
spi_transfer(tx, slave, skip) == IF skip THEN tx ELSE Answer(slave, tx)

(***************************************************************************)
(* Integer helpers.                                                        *)
(***************************************************************************)
\* ((d & 0xff00) >> 8) | ((d & 0xff) << 8), stored in a uint16_t
Swap16(d) == ((((d \div 256) % 256) * 256) \div 256 + (d % 256) * 256) % 65536

\* (uint8_t *)&data on the little-endian target, and back
ToBytes(w) == <<w % 256, (w \div 256) % 256>>

FromBytes(b) == b[1] + 256 * b[2]

NoRet == <<>>

Result(spi, settings, tr, r) == [spi |-> spi, settings |-> settings, trace |-> tr, ret |-> r]

(***************************************************************************)
(* The methods of SPIClass: the object and the HAL calls they produce.     *)
(***************************************************************************)
\* begin() that re-initialises with the cached settings instead of the defaults
SPIClass_begin_KeepsCache(spi, cur) ==
  LET spi1 == [spi EXCEPT !.handle_State = HAL_SPI_STATE_RESET]
  IN Result(spi_init(spi1), cur, <<SpiInitCall(spi1, cur)>>, NoRet)

SPIClass_begin(spi, cur) ==
  LET spi1 == [spi EXCEPT !.handle_State = HAL_SPI_STATE_RESET]
      s1 == DEFAULT_SPI_SETTINGS
  IN Result(spi_init(spi1), s1, <<SpiInitCall(spi1, s1)>>, NoRet)

\* beginTransaction() without the comparison with the cached settings
SPIClass_beginTransaction_Always(spi, cur, settings) ==
  Result(spi_init(spi), settings, <<SpiInitCall(spi, settings)>>, NoRet)

SPIClass_beginTransaction(spi, cur, settings) ==
  IF SettingsNeq(cur, settings)
    THEN Result(spi_init(spi), settings, <<SpiInitCall(spi, settings)>>, NoRet)
    ELSE Result(spi, cur, <<>>, NoRet)

\* endTransaction() that stops the peripheral
SPIClass_endTransaction_Deinit(spi, cur) ==
  Result(spi_deinit(spi), cur, <<SpiDeinitCall>>, NoRet)

SPIClass_endTransaction(spi, cur) == Result(spi, cur, <<>>, NoRet)

SPIClass_end(spi, cur) == Result(spi_deinit(spi), cur, <<SpiDeinitCall>>, NoRet)

\* setBitOrder() that re-initialises only when the bit order changes
SPIClass_setBitOrder_IfChanged(spi, cur, bitOrder) ==
  LET s1 == [cur EXCEPT !.bitOrder = bitOrder]
  IN IF SettingsNeq(cur, s1)
       THEN Result(spi_init(spi), s1, <<SpiInitCall(spi, s1)>>, NoRet)
       ELSE Result(spi, cur, <<>>, NoRet)

SPIClass_setBitOrder(spi, cur, bitOrder) ==
  LET s1 == [cur EXCEPT !.bitOrder = bitOrder]
  IN Result(spi_init(spi), s1, <<SpiInitCall(spi, s1)>>, NoRet)

SPIClass_setDataMode(spi, cur, mode) ==
  LET s1 == [cur EXCEPT !.dataMode = mode]
  IN Result(spi_init(spi), s1, <<SpiInitCall(spi, s1)>>, NoRet)

\* setDataMode(uint8_t) casts and delegates
SPIClass_setDataMode_u8(spi, cur, mode) == SPIClass_setDataMode(spi, cur, mode)

\* setClockDivider() that rounds the quotient up
SPIClass_setClockDivider_RoundsUp(spi, cur, divider, pclk) ==
  IF divider = 0
    THEN LET s1 == [cur EXCEPT !.clockFreq = SPI_SPEED_CLOCK_DEFAULT]
         IN Result(spi_init(spi), s1, <<SpiInitCall(spi, s1)>>, NoRet)
    ELSE LET s1 == [cur EXCEPT !.clockFreq = (pclk + divider - 1) \div divider]
         IN Result(spi_init(spi), s1, <<SpiGetClkFreqCall(pclk), SpiInitCall(spi, s1)>>, NoRet)

\* pclk is what spi_getClkFreq answers when it is asked
SPIClass_setClockDivider(spi, cur, divider, pclk) ==
  IF divider = 0
    THEN LET s1 == [cur EXCEPT !.clockFreq = SPI_SPEED_CLOCK_DEFAULT]
         IN Result(spi_init(spi), s1, <<SpiInitCall(spi, s1)>>, NoRet)
    ELSE LET s1 == [cur EXCEPT !.clockFreq = pclk \div divider]
         IN Result(spi_init(spi), s1, <<SpiGetClkFreqCall(pclk), SpiInitCall(spi, s1)>>, NoRet)

SPIClass_transfer(spi, cur, data, slave) ==
  LET tx == <<data>>
      rx == spi_transfer(tx, slave, cur.noReceive)
  IN Result(spi, cur, <<SpiTransferCall(tx, 1, SPI_TRANSFER_TIMEOUT, cur.noReceive, rx)>>, rx[1])

\* transfer16() that swaps the bytes before the HAL call only
SPIClass_transfer16_NoSwapBack(spi, cur, data, slave) ==
  LET d1 == IF cur.bitOrder # 0 THEN Swap16(data) ELSE data
      tx == ToBytes(d1)
      rx == spi_transfer(tx, slave, cur.noReceive)
  IN Result(spi, cur, <<SpiTransferCall(tx, 2, SPI_TRANSFER_TIMEOUT, cur.noReceive, rx)>>,
            FromBytes(rx))

SPIClass_transfer16(spi, cur, data, slave) ==
  LET d1 == IF cur.bitOrder # 0 THEN Swap16(data) ELSE data
      tx == ToBytes(d1)
      rx == spi_transfer(tx, slave, cur.noReceive)
      d2 == FromBytes(rx)
      d3 == IF cur.bitOrder # 0 THEN Swap16(d2) ELSE d2
  IN Result(spi, cur, <<SpiTransferCall(tx, 2, SPI_TRANSFER_TIMEOUT, cur.noReceive, rx)>>, d3)

\* transfer(buf, count) that always receives, whatever the cached flag
SPIClass_transfer_buf_AlwaysReceives(spi, cur, buf, count, slave) ==
  IF count # 0 /\ ~buf.null
    THEN LET tx == SubSeq(buf.mem, 1, count)
             rx == spi_transfer(tx, slave, FALSE)
         IN Result(spi, cur, <<SpiTransferCall(tx, count, SPI_TRANSFER_TIMEOUT, FALSE, rx)>>,
                   rx \o SubSeq(buf.mem, count + 1, Len(buf.mem)))
    ELSE Result(spi, cur, <<>>, IF buf.null THEN NoRet ELSE buf.mem)

\* buf is [null, mem]: a null pointer, or a pointer to the bytes mem
SPIClass_transfer_buf(spi, cur, buf, count, slave) ==
  IF count # 0 /\ ~buf.null
    THEN LET tx == SubSeq(buf.mem, 1, count)
             rx == spi_transfer(tx, slave, cur.noReceive)
         IN Result(spi, cur,
                   <<SpiTransferCall(tx, count, SPI_TRANSFER_TIMEOUT, cur.noReceive, rx)>>,
                   rx \o SubSeq(buf.mem, count + 1, Len(buf.mem)))
    ELSE Result(spi, cur, <<>>, IF buf.null THEN NoRet ELSE buf.mem)

SPIClass_usingInterrupt(spi, cur, interruptNumber) == Result(spi, cur, <<>>, NoRet)

SPIClass_notUsingInterrupt(spi, cur, interruptNumber) == Result(spi, cur, <<>>, NoRet)

SPIClass_attachInterrupt(spi, cur) == Result(spi, cur, <<>>, NoRet)

SPIClass_detachInterrupt(spi, cur) == Result(spi, cur, <<>>, NoRet)

(***************************************************************************)
(* The state machine.                                                      *)
(***************************************************************************)
HasCall(tr, c) == \E i \in 1..Len(tr) : tr[i].call = c

CountCalls(tr, c) == Cardinality({i \in 1..Len(tr) : tr[i].call = c})

BeginOps == {"begin", "beginTransaction"}

\* which of spi_init and spi_deinit was called last
PeriphAfter(p, tr) ==
  IF HasCall(tr, "spi_init") THEN "init"
  ELSE IF HasCall(tr, "spi_deinit") THEN "deinit"
  ELSE p

\* a call of the method name with arguments arg and outcome r
Commit(name, arg, r) ==
  /\ op' = [name |-> name, arg |-> arg]
  /\ _spi' = r.spi
  /\ _spiSettings' = r.settings
  /\ trace' = r.trace
  /\ ret' = r.ret
  /\ pre' = [spi |-> _spi, settings |-> _spiSettings, periph |-> periph]
  /\ periph' = PeriphAfter(periph, r.trace)
  /\ everInit' = (everInit \/ HasCall(r.trace, "spi_init"))
  /\ begun' = (begun \/ name \in BeginOps)
  /\ begunSinceEnd' = IF name = "end" THEN FALSE ELSE (begunSinceEnd \/ name \in BeginOps)

\* SPIClass::SPIClass(); the constructors leave handle.State as the storage
\* holds it: reset for the static object SPI, anything for an automatic one
SPIClass_default(state) ==
  [pin_miso |-> digitalPinToPinName(MISO), pin_mosi |-> digitalPinToPinName(MOSI),
   pin_sclk |-> digitalPinToPinName(SCK), pin_ssel |-> NC,
   handle_State |-> state]

\* SPIClass::SPIClass(mosi, miso, sclk, ssel)
SPIClass_pins(mosi, miso, sclk, ssel, state) ==
  [pin_miso |-> digitalPinToPinName(miso), pin_mosi |-> digitalPinToPinName(mosi),
   pin_sclk |-> digitalPinToPinName(sclk), pin_ssel |-> digitalPinToPinName(ssel),
   handle_State |-> state]

Init ==
  /\ _spi \in {SPIClass_default(HAL_SPI_STATE_RESET)} \cup
              {SPIClass_pins(p[1], p[2], p[3], p[4], st) : p \in PinArgs, st \in HandleStates}
  /\ _spiSettings = DEFAULT_SPI_SETTINGS
  /\ op = [name |-> "SPIClass", arg |-> <<>>]
  /\ trace = <<>>
  /\ ret = NoRet
  /\ pre = [spi |-> _spi, settings |-> _spiSettings, periph |-> "never"]
  /\ periph = "never"
  /\ everInit = FALSE
  /\ begun = FALSE
  /\ begunSinceEnd = FALSE

begin == Commit("begin", <<>>, SPIClass_begin(_spi, _spiSettings))

beginTransaction ==
  \E settings \in SettingsArgs :
    Commit("beginTransaction", settings, SPIClass_beginTransaction(_spi, _spiSettings, settings))

endTransaction == Commit("endTransaction", <<>>, SPIClass_endTransaction(_spi, _spiSettings))

end == Commit("end", <<>>, SPIClass_end(_spi, _spiSettings))

setBitOrder ==
  \E bitOrder \in BitOrders :
    Commit("setBitOrder", bitOrder, SPIClass_setBitOrder(_spi, _spiSettings, bitOrder))

setDataMode ==
  \E mode \in SPIModes :
    Commit("setDataMode", mode, SPIClass_setDataMode(_spi, _spiSettings, mode))

setDataMode_u8 ==
  \E mode \in SPIModes :
    Commit("setDataMode_u8", mode, SPIClass_setDataMode_u8(_spi, _spiSettings, mode))

setClockDivider ==
  \E divider \in Dividers, pclk \in PClkFreqs :
    Commit("setClockDivider", divider,
           SPIClass_setClockDivider(_spi, _spiSettings, divider, pclk))

transfer ==
  \E data \in ByteSamples, slave \in Slaves :
    Commit("transfer", <<data, slave>>, SPIClass_transfer(_spi, _spiSettings, data, slave))

transfer16 ==
  \E data \in Words16, slave \in Slaves :
    Commit("transfer16", <<data, slave>>, SPIClass_transfer16(_spi, _spiSettings, data, slave))

Buffers ==
  {[null |-> TRUE, mem |-> <<>>]} \cup
  {[null |-> FALSE, mem |-> [i \in 1..n |-> (165 + 90 * i) % 256]] : n \in 0..MaxBufLen}

transfer_buf ==
  \E buf \in Buffers, slave \in Slaves :
    \E count \in 0..(IF buf.null THEN 1 ELSE Len(buf.mem)) :
      Commit("transfer_buf", <<buf, count, slave>>,
             SPIClass_transfer_buf(_spi, _spiSettings, buf, count, slave))

usingInterrupt ==
  \E n \in InterruptNumbers :
    Commit("usingInterrupt", n, SPIClass_usingInterrupt(_spi, _spiSettings, n))

notUsingInterrupt ==
  \E n \in InterruptNumbers :
    Commit("notUsingInterrupt", n, SPIClass_notUsingInterrupt(_spi, _spiSettings, n))

attachInterrupt == Commit("attachInterrupt", <<>>, SPIClass_attachInterrupt(_spi, _spiSettings))

detachInterrupt == Commit("detachInterrupt", <<>>, SPIClass_detachInterrupt(_spi, _spiSettings))

Next ==
  \/ begin
  \/ beginTransaction
  \/ endTransaction
  \/ end
  \/ setBitOrder
  \/ setDataMode
  \/ setDataMode_u8
  \/ setClockDivider
  \/ transfer
  \/ transfer16
  \/ transfer_buf
  \/ usingInterrupt
  \/ notUsingInterrupt
  \/ attachInterrupt
  \/ detachInterrupt

Spec == Init /\ [][Next]_vars

(***************************************************************************)
(* Properties.                                                             *)
(***************************************************************************)
SettingOps == {"beginTransaction", "setBitOrder", "setDataMode", "setDataMode_u8", "setClockDivider"}

Setters == SettingOps \ {"beginTransaction"}

TransferOps == {"transfer", "transfer16", "transfer_buf"}

NoOps == {"endTransaction", "usingInterrupt", "notUsingInterrupt", "attachInterrupt",
          "detachInterrupt"}

\* the last method made exactly the call spi_init(speed, mode, msb), as its last HAL call
InitCalledOnceWith(speed, mode, msb) ==
  /\ CountCalls(trace, "spi_init") = 1
  /\ trace[Len(trace)].call = "spi_init"
  /\ trace[Len(trace)].speed = speed
  /\ trace[Len(trace)].mode = mode
  /\ trace[Len(trace)].msb = msb

\* the last method forwarded a transfer to the HAL
Forwarded == op.name \in TransferOps /\ HasCall(trace, "spi_transfer")

\* C1: beginTransaction(settings) calls spi_init exactly when settings differs
\* from the cached settings: if they differ the cache becomes settings and
\* spi_init is called once with its clock frequency, data mode and bit order;
\* if they are equal no HAL call is made and the cache is unchanged.
C1_BeginTransaction ==
  op.name = "beginTransaction" =>
    IF op.arg # pre.settings
      THEN /\ _spiSettings = op.arg
           /\ Len(trace) = 1
           /\ InitCalledOnceWith(op.arg.clockFreq, op.arg.dataMode, op.arg.bitOrder)
      ELSE /\ trace = <<>>
           /\ _spiSettings = pre.settings

\* a beginTransaction with settings that differ only in the skip-receive flag
C1_Witness ==
  /\ op.name = "beginTransaction"
  /\ op.arg # pre.settings
  /\ [op.arg EXCEPT !.noReceive = pre.settings.noReceive] = pre.settings
  /\ HasCall(trace, "spi_init")

\* C2 as stated: each of beginTransaction, setBitOrder, setDataMode and
\* setClockDivider calls spi_init only when the resulting settings differ from
\* the settings cached before the call.
C2_Original ==
  (op.name \in SettingOps /\ HasCall(trace, "spi_init")) => _spiSettings # pre.settings

\* C2 amended: beginTransaction calls spi_init only when the resulting settings
\* differ from the settings cached before the call; setBitOrder, setDataMode
\* and setClockDivider call spi_init exactly once with the resulting settings
\* on every call, also when the call leaves the settings equal.
C2_Amended ==
  /\ (op.name = "beginTransaction" /\ HasCall(trace, "spi_init")) => _spiSettings # pre.settings
  /\ op.name \in Setters =>
       InitCalledOnceWith(_spiSettings.clockFreq, _spiSettings.dataMode, _spiSettings.bitOrder)

\* a setBitOrder that leaves the settings equal and still calls spi_init
C2_Witness ==
  /\ op.name = "setBitOrder"
  /\ _spiSettings = pre.settings
  /\ HasCall(trace, "spi_init")

\* C3: a transfer forwarded to the HAL after begin() or beginTransaction() was
\* called at least once is preceded by at least one call of spi_init.
C3_InitBeforeTransfer == (Forwarded /\ begun) => everInit

\* C4: transfer16 sends the high byte first exactly when the cached bit order
\* is non-zero and the low byte first otherwise, assembles the result from the
\* received bytes in the same order, so that a HAL that leaves the buffer
\* unchanged makes transfer16(data) return data; swapping twice is the identity.
\* The last two hold for every 16-bit word and both bit orders (they do not
\* depend on the state and are evaluated on the constructed object).
C4_Transfer16Swap ==
  /\ op.name = "SPIClass" =>
       \A d \in 0..UINT16_MAX :
         /\ Swap16(Swap16(d)) = d
         /\ \A b \in BitOrders :
              SPIClass_transfer16(_spi, [_spiSettings EXCEPT !.bitOrder = b], d, "loopback").ret = d
  /\ op.name = "transfer16" =>
    LET data == op.arg[1]
        e == trace[1]
        msb == _spiSettings.bitOrder # 0
    IN /\ Swap16(Swap16(data)) = data
       /\ e.tx = IF msb THEN <<data \div 256, data % 256>> ELSE <<data % 256, data \div 256>>
       /\ ret = IF msb THEN e.rx[1] * 256 + e.rx[2] ELSE e.rx[2] * 256 + e.rx[1]
       /\ e.rx = e.tx => ret = data

\* transfer16(0x1234) in MSBFIRST order through a loopback
C4_Witness ==
  /\ op.name = "transfer16"
  /\ op.arg = <<4660, "loopback">>
  /\ _spiSettings.bitOrder = MSBFIRST
  /\ ~_spiSettings.noReceive
  /\ trace[1].tx = <<18, 52>>
  /\ ret = 4660

\* C5: setClockDivider(d) sets the cached clock frequency to the truncated
\* quotient spi_getClkFreq / d for d in 1..255 and to SPI_SPEED_CLOCK_DEFAULT,
\* without asking spi_getClkFreq, for d = 0; it then calls spi_init once with
\* that frequency and the unchanged data mode and bit order.
C5_SetClockDivider ==
  op.name = "setClockDivider" =>
    LET d == op.arg
        f == _spiSettings.clockFreq
    IN /\ d = 0 => (f = SPI_SPEED_CLOCK_DEFAULT /\ ~HasCall(trace, "spi_getClkFreq"))
       /\ d \in 1..255 =>
            /\ Len(trace) = 2
            /\ trace[1].call = "spi_getClkFreq"
            /\ f * d <= trace[1].freq
            /\ trace[1].freq < (f + 1) * d
       /\ InitCalledOnceWith(f, pre.settings.dataMode, pre.settings.bitOrder)
       /\ _spiSettings = [pre.settings EXCEPT !.clockFreq = f]

\* setClockDivider(255) of an 84 MHz peripheral clock, which 255 does not divide
C5_Witness ==
  /\ op.name = "setClockDivider"
  /\ op.arg = 255
  /\ trace[1].call = "spi_getClkFreq"
  /\ trace[1].freq = 84000000
  /\ _spiSettings.clockFreq = 329411

\* C6: a transfer is forwarded as a single spi_transfer call with the timeout
\* SPI_TRANSFER_TIMEOUT and the cached skip-receive flag, of length 1 for
\* transfer(byte), 2 for transfer16 and count for transfer(buf, count); no
\* transfer changes the cached settings or calls spi_init or spi_deinit.
C6_TransferForwarding ==
  op.name \in TransferOps =>
    /\ _spiSettings = pre.settings
    /\ _spi = pre.spi
    /\ ~HasCall(trace, "spi_init")
    /\ ~HasCall(trace, "spi_deinit")
    /\ op.name = "transfer_buf" => (Forwarded <=> (op.arg[2] # 0 /\ ~op.arg[1].null))
    /\ op.name # "transfer_buf" => Forwarded
    /\ IF Forwarded
         THEN /\ Len(trace) = 1
              /\ trace[1].timeout = SPI_TRANSFER_TIMEOUT
              /\ trace[1].skipReceive = pre.settings.noReceive
              /\ trace[1].len = (CASE op.name = "transfer" -> 1
                                   [] op.name = "transfer16" -> 2
                                   [] OTHER -> op.arg[2])
              /\ Len(trace[1].tx) = trace[1].len
         ELSE trace = <<>>

\* a transfer(buf, 1) of a two-byte buffer with the skip-receive flag set
C6_Witness ==
  /\ op.name = "transfer_buf"
  /\ Len(op.arg[1].mem) = 2
  /\ op.arg[2] = 1
  /\ Forwarded
  /\ trace[1].skipReceive

\* C7: usingInterrupt, notUsingInterrupt, attachInterrupt, detachInterrupt and
\* endTransaction make no HAL call and leave the cached settings, the pins, the
\* handle and the peripheral's initialised or de-initialised state unchanged.
C7_NoOps ==
  op.name \in NoOps =>
    /\ trace = <<>>
    /\ _spiSettings = pre.settings
    /\ _spi = pre.spi
    /\ periph = pre.periph

\* endTransaction on an initialised peripheral with settings other than the default
C7_Witness ==
  /\ op.name = "endTransaction"
  /\ periph = "init"
  /\ _spi.handle_State = HAL_SPI_STATE_READY
  /\ _spiSettings # DEFAULT_SPI_SETTINGS

\* C8: begin(), from every state, sets the handle state to HAL_SPI_STATE_RESET
\* and the cached settings to DEFAULT_SPI_SETTINGS and calls spi_init exactly
\* once with the default clock frequency, data mode and bit order.
C8_BeginRestoresDefaults ==
  op.name = "begin" =>
    /\ _spiSettings = DEFAULT_SPI_SETTINGS
    /\ Len(trace) = 1
    /\ InitCalledOnceWith(DEFAULT_SPI_SETTINGS.clockFreq, DEFAULT_SPI_SETTINGS.dataMode,
                          DEFAULT_SPI_SETTINGS.bitOrder)
    /\ trace[1].state = HAL_SPI_STATE_RESET
    /\ _spi = spi_init(pre.spi)

\* begin() on a ready handle with other settings cached
C8_Witness ==
  /\ op.name = "begin"
  /\ pre.spi.handle_State = HAL_SPI_STATE_READY
  /\ pre.settings.clockFreq # SPI_SPEED_CLOCK_DEFAULT
  /\ pre.settings.bitOrder = LSBFIRST

\* C9: after end(), a transfer that follows a later begin() or
\* beginTransaction() is forwarded only to a peripheral that was initialised
\* again with spi_init; end() itself calls spi_deinit once and leaves the cached
\* settings unchanged.
C9_ReinitAfterEnd ==
  /\ (Forwarded /\ begunSinceEnd) => periph # "deinit"
  /\ op.name = "end" => (trace = <<SpiDeinitCall>> /\ _spiSettings = pre.settings)
====
